---- MODULE Spec2Model ----
(***************************************************************************)
(* codecfs: a FUSE filesystem that mirrors a real directory and shows      *)
(* every audio file under the name it would have as an ogg file            *)
(* (src/main.go).  The model follows the callbacks of main.go: dir.        *)
(* ReadDirAll, dir.Lookup, file.Attr, file.Open, fileHandle.Read / Release *)
(* and nativeFile.Read / Release, over the two process-wide maps allFiles  *)
(* and allSizes.  The underlying directory and the ffmpeg subprocess are   *)
(* the environment.                                                        *)
(***************************************************************************)
EXTENDS Integers, Sequences, FiniteSets, TLC

(***************************************************************************)
(* Bounds of the model.                                                    *)
(***************************************************************************)
\* most entries the real directory holds at one time
MaxFiles == 2
\* most handles open at one time
MaxHandles == 1
\* most bytes one ffmpeg run writes to its standard output
MaxStream == 2
\* most nodes the kernel holds at one time, where they are counted
MaxNodes == 1
\* most bytes the kernel keeps in a pipe that is not read
PipeCap == 1
\* most reads in flight on one handle
MaxReads == 2

(***************************************************************************)
(* Strings are sequences of one-character strings, so that filepath.Ext,   *)
(* strings.Replace and strings.HasSuffix are computed as Go computes them. *)
(***************************************************************************)
Min(a, b) == IF a < b THEN a ELSE b

\* os.IsPathSeparator
IsPathSeparator(c) == c = "/"

\* filepath.Ext: the suffix beginning at the final dot in the final element
\* of path; empty if there is no dot.
RECURSIVE ExtFrom(_, _)
ExtFrom(path, i) ==
    IF i < 1 \/ IsPathSeparator(path[i]) THEN << >>
    ELSE IF path[i] = "." THEN SubSeq(path, i, Len(path))
    ELSE ExtFrom(path, i - 1)

Ext(path) == ExtFrom(path, Len(path))

\* strings.HasPrefix at position i (1-based): sub occurs in s starting at i
OccursAt(s, sub, i) ==
    /\ i + Len(sub) - 1 <= Len(s)
    /\ \A k \in 1..Len(sub) : s[i + k - 1] = sub[k]

\* strings.Index, 1-based; 0 when sub does not occur.  The empty string
\* occurs at the start of every string.
Index(s, sub) ==
    IF \E i \in 1..(Len(s) + 1) : OccursAt(s, sub, i)
    THEN CHOOSE i \in 1..(Len(s) + 1) :
            /\ OccursAt(s, sub, i)
            /\ \A j \in 1..(i - 1) : ~OccursAt(s, sub, j)
    ELSE 0

\* strings.Replace(s, old, new, 1): the first occurrence of old replaced.
Replace1(s, old, new) ==
    LET i == Index(s, old) IN
    IF i = 0 THEN s
    ELSE SubSeq(s, 1, i - 1) \o new \o SubSeq(s, i + Len(old), Len(s))

\* strings.HasSuffix
HasSuffix(s, suffix) ==
    /\ Len(suffix) <= Len(s)
    /\ SubSeq(s, Len(s) - Len(suffix) + 1, Len(s)) = suffix

\* filepath.Join(dir, name).  No name of the model is ".", ".." or holds a
\* separator, so the Clean that Join ends with changes nothing.
Join(dir, name) == dir \o <<"/">> \o name

\* the target extension, ".ogg"
OggExt == <<".", "o", "g", "g">>
FlacExt == <<".", "f", "l", "a", "c">>

(***************************************************************************)
(* The environment: the real directory.  A file is its kind, its size, the *)
(* MIME type http.DetectContentType gives for its first 512 bytes (as      *)
(* <<type, subtype>>) and a seed that fixes its bytes.  The directory      *)
(* holds at any time some of the entries of Catalogue, and Readdir returns *)
(* them in the order of Catalogue.                                         *)
(***************************************************************************)
\* Root.dir, os.Args[1]
RootDir == <<"d">>

TrackMp3 == <<"t", ".", "m", "p", "3">>
TrackFlac == <<"t", ".", "f", "l", "a", "c">>
TrackOgg == <<"t", ".", "o", "g", "g">>
NotesTxt == <<"n", ".", "t", "x", "t">>
LiveMp3 == <<"b", ".", "m", "p", "3", ".", "m", "p", "3">>
SubDir == <<"s">>
MissingOgg == <<"m", ".", "o", "g", "g">>

Catalogue ==
    << [name |-> TrackMp3, kind |-> "file", size |-> 600,
        ctype |-> <<"audio", "mpeg">>, seed |-> 10],
       [name |-> TrackFlac, kind |-> "file", size |-> 700,
        ctype |-> <<"application", "octet-stream">>, seed |-> 20],
       [name |-> TrackOgg, kind |-> "file", size |-> 515,
        ctype |-> <<"application", "ogg">>, seed |-> 30],
       [name |-> NotesTxt, kind |-> "file", size |-> 3,
        ctype |-> <<"text", "plain; charset=utf-8">>, seed |-> 40],
       [name |-> LiveMp3, kind |-> "file", size |-> 600,
        ctype |-> <<"audio", "mpeg">>, seed |-> 50],
       [name |-> SubDir, kind |-> "dir", size |-> 0,
        ctype |-> <<"", "">>, seed |-> 0] >>

CatIndex == 1..Len(Catalogue)
CatPaths == {Join(RootDir, Catalogue[i].name) : i \in CatIndex}
\* the catalogue entry at path p
Entry(p) == Catalogue[CHOOSE i \in CatIndex : Join(RootDir, Catalogue[i].name) = p]

\* byte i (from 0) of the file at path p
ByteAt(p, i) == (Entry(p).seed + i) % 256
\* os.File.ReadAt: the bytes [off, off+n) a positioned read of p gives, cut
\* at the end of the file
ReadAt(p, off, n) ==
    LET got == IF off >= Entry(p).size THEN 0 ELSE Min(n, Entry(p).size - off)
    IN [k \in 1..got |-> ByteAt(p, off + k - 1)]

\* the length of the sniffing buffer, var buf [512]byte
SniffLen == 512

VARIABLES
    disk,       \* the paths that exist in the real directory
    allFiles,   \* sync.Map: virtual path -> real path
    allSizes,   \* sync.Map: file.name -> size seen at the end of a transcode
    nodes,      \* the dir and file nodes the kernel holds
    handles,    \* the open handles: nativeFile or fileHandle
    ls,         \* the dir.ReadDirAll call in progress, if any
    ret         \* what the last callback returned

vars == <<disk, allFiles, allSizes, nodes, handles, ls, ret>>

\* os.Stat / os.Open succeed on p
Exists(p) == p \in disk
IsDir(p) == Exists(p) /\ Entry(p).kind = "dir"
IsRegular(p) == Exists(p) /\ Entry(p).kind = "file"
\* sync.Map.Load's ok
Has(m, k) == k \in DOMAIN m
\* sync.Map.Store
Store(m, k, v) == [x \in DOMAIN m \cup {k} |-> IF x = k THEN v ELSE m[x]]

\* isAudio(path): io.ReadFull fills the 512-byte buffer, or fails with
\* io.EOF on an empty file (any other error, also the ErrUnexpectedEOF of
\* a shorter file, answers false); then the sniffed type, or a .flac name.
isAudio(path) ==
    /\ Exists(path)
    /\ Entry(path).kind = "file"
    /\ Entry(path).size = 0 \/ Entry(path).size >= SniffLen
    /\ \/ Entry(path).ctype[1] = "audio"
       \/ Entry(path).ctype[1] = "video"
       \/ Entry(path).ctype = <<"application", "ogg">>
       \/ HasSuffix(path, FlacExt)

NoRet == [op |-> "none"]
NoHandle == [kind |-> "none"]
Idle == [pc |-> "idle"]

Init ==
    /\ disk \in {s \in SUBSET CatPaths : Cardinality(s) <= MaxFiles}
    /\ allFiles = << >>
    /\ allSizes = << >>
    /\ nodes = {}
    /\ handles = [h \in 1..MaxHandles |-> NoHandle]
    /\ ls = Idle
    /\ ret = NoRet

(***************************************************************************)
(* The environment changes the real directory.                             *)
(***************************************************************************)
Unlink(p) ==
    /\ p \in disk
    /\ disk' = disk \ {p}
    /\ ret' = NoRet
    /\ UNCHANGED <<allFiles, allSizes, nodes, handles, ls>>

Create(p) ==
    /\ p \in CatPaths \ disk
    /\ Cardinality(disk) < MaxFiles
    /\ disk' = disk \cup {p}
    /\ ret' = NoRet
    /\ UNCHANGED <<allFiles, allSizes, nodes, handles, ls>>

(***************************************************************************)
(* dir.ReadDirAll, one step per directory entry.                           *)
(***************************************************************************)
\* the directory nodes: the one Root.Lookup("ogg") gives, and those looked up
DirNodes == {RootDir} \cup {n.name : n \in {m \in nodes : m.kind = "dir"}}

\* the direct children of directory d, in directory order
RECURSIVE ReaddirFrom(_, _)
ReaddirFrom(d, i) ==
    IF i > Len(Catalogue) THEN << >>
    ELSE (IF d = RootDir /\ Join(d, Catalogue[i].name) \in disk
          THEN <<[name |-> Catalogue[i].name, kind |-> Catalogue[i].kind]>>
          ELSE << >>) \o ReaddirFrom(d, i + 1)

Readdir(d) == ReaddirFrom(d, 1)

\* lines 113-122: open the directory and read its entries
ReadDirAllBegin(d) ==
    /\ ls.pc = "idle"
    /\ d \in DirNodes
    /\ IF ~IsDir(d) /\ d # RootDir
       THEN /\ ret' = [op |-> "readdir", err |-> "EIO", dir |-> d, out |-> << >>]
            /\ ls' = ls
       ELSE /\ ls' = [pc |-> "loop", dir |-> d, ents |-> Readdir(d), i |-> 1,
                      out |-> << >>]
            /\ ret' = NoRet
    /\ UNCHANGED <<disk, allFiles, allSizes, nodes, handles>>

\* the name ReadDirAll shows for an audio file called name (lines 137-138)
Renamed(name) == Replace1(name, Ext(name), OggExt)

\* a pass that stores the mapping without asking whether the renamed path
\* exists
ListEntryNoStat(acc, d, ent) ==
    LET typ == IF ent.kind = "dir" THEN "DT_Dir" ELSE "DT_File"
        audio == typ = "DT_File" /\ isAudio(Join(d, ent.name))
        name == IF audio THEN Renamed(ent.name) ELSE ent.name
    IN IF ent.kind \notin {"dir", "file"} THEN acc
       ELSE [files |-> IF audio
                       THEN Store(acc.files, Join(d, name), Join(d, ent.name))
                       ELSE acc.files,
             out |-> Append(acc.out, [Type |-> typ, Name |-> name,
                                      src |-> ent.name, audio |-> audio])]

\* a pass that renames an audio file only when its mapping is not yet stored
ListEntryOnce(acc, d, ent) ==
    LET typ == IF ent.kind = "dir" THEN "DT_Dir" ELSE "DT_File"
        audio == typ = "DT_File" /\ isAudio(Join(d, ent.name))
        fresh == audio /\ ~Has(acc.files, Join(d, Renamed(ent.name)))
        name == IF fresh THEN Renamed(ent.name) ELSE ent.name
    IN IF ent.kind \notin {"dir", "file"} THEN acc
       ELSE [files |-> IF fresh /\ ~Exists(Join(d, name))
                       THEN Store(acc.files, Join(d, name), Join(d, ent.name))
                       ELSE acc.files,
             out |-> Append(acc.out, [Type |-> typ, Name |-> name,
                                      src |-> ent.name, audio |-> audio])]

\* lines 124-147: one pass of the loop, on entry ent of directory d, from
\* acc = [files: allFiles, out: the entries so far].  An entry of out
\* carries, beside Type and Name, the entry it was made from (src) and
\* whether isAudio held for it (audio), which the code does not keep.
ListEntry(acc, d, ent) ==
    LET typ == IF ent.kind = "dir" THEN "DT_Dir" ELSE "DT_File"
        audio == typ = "DT_File" /\ isAudio(Join(d, ent.name))
        name == IF audio THEN Renamed(ent.name) ELSE ent.name
    IN IF ent.kind \notin {"dir", "file"} THEN acc
       ELSE [files |-> IF audio /\ ~Exists(Join(d, name))
                       THEN Store(acc.files, Join(d, name), Join(d, ent.name))
                       ELSE acc.files,
             out |-> Append(acc.out, [Type |-> typ, Name |-> name,
                                      src |-> ent.name, audio |-> audio])]

ReadDirAllStep ==
    /\ ls.pc = "loop"
    /\ ls.i <= Len(ls.ents)
    /\ LET acc == ListEntry([files |-> allFiles, out |-> ls.out], ls.dir, ls.ents[ls.i])
       IN /\ allFiles' = acc.files
          /\ ls' = [ls EXCEPT !.i = @ + 1, !.out = acc.out]
    /\ ret' = NoRet
    /\ UNCHANGED <<disk, allSizes, nodes, handles>>

\* line 148: return out
ReadDirAllReturn ==
    /\ ls.pc = "loop"
    /\ ls.i > Len(ls.ents)
    /\ ret' = [op |-> "readdir", err |-> "ok", dir |-> ls.dir, out |-> ls.out]
    /\ ls' = Idle
    /\ UNCHANGED <<disk, allFiles, allSizes, nodes, handles>>


\* lines 123-147: the whole loop over ents, from entry i
RECURSIVE ListFrom(_, _, _, _)
ListFrom(acc, d, ents, i) ==
    IF i > Len(ents) THEN acc
    ELSE ListFrom(ListEntry(acc, d, ents[i]), d, ents, i + 1)

\* dir.ReadDirAll as one step, when no other callback runs during it
ReadDirAll(d) ==
    /\ ls.pc = "idle"
    /\ d \in DirNodes
    /\ IF ~IsDir(d) /\ d # RootDir
       THEN /\ ret' = [op |-> "readdir", err |-> "EIO", dir |-> d, out |-> << >>]
            /\ allFiles' = allFiles
       ELSE LET acc == ListFrom([files |-> allFiles, out |-> << >>], d, Readdir(d), 1)
            IN /\ allFiles' = acc.files
               /\ ret' = [op |-> "readdir", err |-> "ok", dir |-> d, out |-> acc.out]
    /\ UNCHANGED <<disk, allSizes, nodes, handles, ls>>

(***************************************************************************)
(* dir.Lookup.  A node carries, beside the fields of the Go struct, the    *)
(* path the client asked for (asked), which the code does not keep.        *)
(***************************************************************************)
\* a lookup that, finding neither file nor mapping, guesses an mp3 source
LookupPathGuess(d, name) ==
    LET baseNameString == Join(d, name) IN
    IF Exists(baseNameString) THEN baseNameString
    ELSE IF Has(allFiles, baseNameString) THEN allFiles[baseNameString]
    ELSE Join(d, Replace1(name, Ext(name), <<".", "m", "p", "3">>))

\* lines 186-196: the path dir.Lookup opens for name in directory d
LookupPath(d, name) ==
    LET baseNameString == Join(d, name) IN
    IF ~Exists(baseNameString) /\ Has(allFiles, baseNameString)
    THEN allFiles[baseNameString]
    ELSE baseNameString

Lookup(d, name) ==
    /\ d \in DirNodes
    /\ LET p == LookupPath(d, name)
           n == [kind |-> Entry(p).kind, name |-> p, asked |-> Join(d, name)]
       IN IF ~Exists(p)
          THEN /\ ret' = [op |-> "lookup", err |-> "ENOENT", asked |-> Join(d, name)]
               /\ nodes' = nodes
          ELSE /\ nodes' = nodes \cup {n}
               /\ ret' = [op |-> "lookup", err |-> "ok", asked |-> Join(d, name),
                          node |-> n]
    /\ UNCHANGED <<disk, allFiles, allSizes, handles, ls>>

\* the kernel forgets a node
Forget(n) ==
    /\ n \in nodes
    /\ nodes' = nodes \ {n}
    /\ ret' = NoRet
    /\ UNCHANGED <<disk, allFiles, allSizes, handles, ls>>

FileNodes == {n \in nodes : n.kind = "file"}

(***************************************************************************)
(* file.Attr                                                               *)
(***************************************************************************)
\* the factor of the made-up size, line 259
FakeFactor == 10

\* an Attr that asks the real file first and the cache after it
AttrSizeStatFirst(name) ==
    IF Exists(name) THEN <<Entry(name).size, "ok">>
    ELSE IF Has(allSizes, name) THEN <<allSizes[name], "ok">>
    ELSE IF Has(allFiles, name)
         THEN IF Exists(allFiles[name])
              THEN <<FakeFactor * Entry(allFiles[name]).size, "ok">>
              ELSE <<0, "ENOENT">>
    ELSE <<0, "ok">>

\* lines 233-263: <<a.Size, error>>
AttrSize(name) ==
    IF Has(allSizes, name) THEN <<allSizes[name], "ok">>
    ELSE IF Exists(name) THEN <<Entry(name).size, "ok">>
    ELSE IF Has(allFiles, name)
         THEN IF Exists(allFiles[name])
              THEN <<FakeFactor * Entry(allFiles[name]).size, "ok">>
              ELSE <<0, "ENOENT">>
    ELSE <<0, "ok">>

Attr(n) ==
    /\ n \in FileNodes
    /\ ret' = [op |-> "attr", node |-> n, size |-> AttrSize(n.name)[1],
               err |-> AttrSize(n.name)[2]]
    /\ UNCHANGED <<disk, allFiles, allSizes, nodes, handles, ls>>

(***************************************************************************)
(* file.Open.  ffmpeg is the environment: what it will write to its        *)
(* standard output is fixed when it starts, and pipe holds the bytes not   *)
(* yet read from it.  input is the path after -i on its command line.      *)
(***************************************************************************)
\* the bytes an ffmpeg run writes, total of them: none is 0
EncoderOutput(total) == [i \in 1..total |-> 100 + i]

\* lines 267-269: os.Open(f.name) succeeds
OpensNative(name) == Exists(name)

\* the server numbers a new handle with the lowest number not in use
Open(n, h) ==
    /\ n \in FileNodes
    /\ h \in 1..MaxHandles
    /\ handles[h] = NoHandle
    /\ \A g \in 1..(h - 1) : handles[g] # NoHandle
    /\ IF OpensNative(n.name)
       THEN handles' = [handles EXCEPT ![h] = [kind |-> "native", name |-> n.name]]
       ELSE \E total \in 0..MaxStream :
               handles' = [handles EXCEPT ![h] =
                              [kind |-> "transcode", name |-> n.name,
                               input |-> n.name,
                               buffer |-> << >>, pipe |-> EncoderOutput(total)]]
    /\ ret' = [op |-> "open", node |-> n, h |-> h, kind |-> handles'[h].kind]
    /\ UNCHANGED <<disk, allFiles, allSizes, nodes, ls>>

(***************************************************************************)
(* fileHandle.Read, fileHandle.Release                                     *)
(***************************************************************************)
\* lines 313-315: the bytes the read asks of the pipe, req.Offset +
\* req.Size - fh.buffer.Len(), when the buffer is shorter than that
Want(fh, offset, size) ==
    IF Len(fh.buffer) < offset + size
    THEN offset + size - Len(fh.buffer)
    ELSE 0

\* line 315: io.CopyN reads want bytes from the pipe, or fewer when the
\* pipe ends first, which is io.EOF and no error to the read
CopyN(pipe, want) == SubSeq(pipe, 1, Min(want, Len(pipe)))

\* a fill that keeps only the bytes just read
FillBufferOverwrite(buffer, chunk) == chunk

\* line 315: bytes.Buffer.ReadFrom appends what it reads to the buffer
FillBuffer(buffer, chunk) == buffer \o chunk

\* lines 321-326
SliceMin(buffer, offset) ==
    IF offset > Len(buffer) THEN Len(buffer) ELSE offset

\* lines 328-333
SliceMax(buffer, offset, size) ==
    IF offset + size > Len(buffer) THEN Len(buffer) ELSE offset + size

\* lines 335-336: resp.Data = make([]byte, req.Size), and the slice copied
\* to its start
RespData(buffer, offset, size) ==
    LET slice == SubSeq(buffer, SliceMin(buffer, offset) + 1,
                        SliceMax(buffer, offset, size))
    IN [k \in 1..size |-> IF k <= Len(slice) THEN slice[k] ELSE 0]

\* line 336: n, the bytes copied
Copied(buffer, offset, size) ==
    Min(size, SliceMax(buffer, offset, size) - SliceMin(buffer, offset))

\* an end signalled by every read that copies fewer bytes than asked
SignalsEndShort(n, size) == n < size

\* lines 339-342: the read stores the size and answers io.EOF
SignalsEnd(n, size) == n = 0

Read(h, offset, size) ==
    /\ h \in 1..MaxHandles
    /\ handles[h].kind = "transcode"
    /\ LET fh == handles[h]
           chunk == CopyN(fh.pipe, Want(fh, offset, size))
           buffer == IF Want(fh, offset, size) > 0
                     THEN FillBuffer(fh.buffer, chunk)
                     ELSE fh.buffer
           n == Copied(buffer, offset, size)
       IN /\ handles' = [handles EXCEPT ![h].buffer = buffer,
                                        ![h].pipe = SubSeq(fh.pipe, Len(chunk) + 1,
                                                           Len(fh.pipe))]
          /\ allSizes' = IF SignalsEnd(n, size)
                         THEN Store(allSizes, fh.name, Len(buffer))
                         ELSE allSizes
          /\ ret' = [op |-> "read", h |-> h, kind |-> "transcode", name |-> fh.name,
                     offset |-> offset, size |-> size, n |-> n,
                     had |-> Len(fh.buffer),
                     data |-> RespData(buffer, offset, size),
                     err |-> IF SignalsEnd(n, size) THEN "EOF" ELSE "ok"]
    /\ UNCHANGED <<disk, allFiles, nodes, ls>>

\* lines 308-310: fh.close is ffmpeg.Wait
Release(h) ==
    /\ h \in 1..MaxHandles
    /\ handles[h].kind = "transcode"
    /\ handles' = [handles EXCEPT ![h] = NoHandle]
    /\ ret' = [op |-> "release", h |-> h, kind |-> "transcode"]
    /\ UNCHANGED <<disk, allFiles, allSizes, nodes, ls>>

(***************************************************************************)
(* nativeFile.Read, nativeFile.Release                                     *)
(***************************************************************************)
\* a read that forgets to cut resp.Data to the bytes read
NativeDataUncut(name, offset, size) ==
    LET got == ReadAt(name, offset, size)
    IN [k \in 1..size |-> IF k <= Len(got) THEN got[k] ELSE 0]

\* lines 354-358: resp.Data = make([]byte, req.Size); ReadAt fills its
\* first n bytes; the response is resp.Data[:n], and io.EOF is no error
NativeData(name, offset, size) ==
    LET got == ReadAt(name, offset, size)
        data == [k \in 1..size |-> IF k <= Len(got) THEN got[k] ELSE 0]
    IN SubSeq(data, 1, Len(got))

NativeRead(h, offset, size) ==
    /\ h \in 1..MaxHandles
    /\ handles[h].kind = "native"
    /\ ret' = [op |-> "read", h |-> h, kind |-> "native", name |-> handles[h].name,
               offset |-> offset, size |-> size,
               n |-> Len(NativeData(handles[h].name, offset, size)),
               data |-> NativeData(handles[h].name, offset, size), err |-> "ok"]
    /\ UNCHANGED <<disk, allFiles, allSizes, nodes, handles, ls>>

NativeRelease(h) ==
    /\ h \in 1..MaxHandles
    /\ handles[h].kind = "native"
    /\ handles' = [handles EXCEPT ![h] = NoHandle]
    /\ ret' = [op |-> "release", h |-> h, kind |-> "native"]
    /\ UNCHANGED <<disk, allFiles, allSizes, nodes, ls>>

(***************************************************************************)
(* The transcode session with its subprocess.  ffmpeg writes its output    *)
(* byte by byte into a pipe of PipeCap bytes and exits when it has written *)
(* all of it; fileHandle.Read runs as a goroutine of the server, one per   *)
(* request, and fileHandle.Release is exec.Cmd.Wait.  A session is         *)
(*   total    the bytes ffmpeg has to write, EncoderOutput(total)          *)
(*   sent     the bytes it has written to the pipe                         *)
(*   pipe     the bytes in the pipe, written and not yet read              *)
(*   mem, len the array under fh.buffer and the length of the buffer       *)
(*   proc     "running" or "exited"                                        *)
(*   waiting  Release has called Wait                                      *)
(*   calls    the reads in flight: where each is (pc), its request, the    *)
(*            bytes it still asks of the pipe (want), the buffer length it *)
(*            read before it reads the pipe (i), and whether a read of the *)
(*            pipe failed for it (piperr, which the code does not keep)    *)
(***************************************************************************)
\* the two handles of a file that is opened twice
Pair == {1, 2}

NoCall == [pc |-> "none"]

\* fh.buffer.Bytes()
Buf(fh) == SubSeq(fh.mem, 1, fh.len)

\* the array mem after chunk is written at index i (from 0)
WriteAt(mem, i, chunk) ==
    [k \in 1..(IF i + Len(chunk) > Len(mem) THEN i + Len(chunk) ELSE Len(mem)) |->
        IF k > i /\ k <= i + Len(chunk) THEN chunk[k - i] ELSE mem[k]]

\* a handle table in which the sessions of one file are one session
SetHandleShared(hs, h, fh) ==
    [g \in DOMAIN hs |->
        IF g = h \/ (hs[g].kind = "transcode" /\ fh.kind = "transcode"
                        /\ hs[g].name = fh.name)
        THEN fh ELSE hs[g]]

\* the handle table after handle h, and no other, has become fh
SetHandle(hs, h, fh) == [hs EXCEPT ![h] = fh]

\* a session for a file that was looked up while it existed and has gone
InitProc ==
    /\ disk = {Join(RootDir, TrackMp3)}
    /\ allFiles = << >>
    /\ allSizes = << >>
    /\ nodes = {[kind |-> "file", name |-> Join(RootDir, TrackOgg),
                 asked |-> Join(RootDir, TrackOgg)]}
    /\ handles = [h \in Pair |-> NoHandle]
    /\ ls = Idle
    /\ ret = NoRet

\* lines 271-294: file.Open starts ffmpeg and returns a fileHandle
OpenSession(n, h) ==
    /\ n \in FileNodes
    /\ h \in DOMAIN handles
    /\ handles[h] = NoHandle
    /\ \A g \in DOMAIN handles : g < h => handles[g] # NoHandle
    /\ ~OpensNative(n.name)
    /\ \E total \in 0..MaxStream :
          handles' = SetHandle(handles, h,
                        [kind |-> "transcode", name |-> n.name, input |-> n.name,
                         total |-> total, sent |-> 0, pipe |-> << >>,
                         mem |-> << >>, len |-> 0,
                         proc |-> "running", waiting |-> FALSE,
                         calls |-> [c \in 1..MaxReads |-> NoCall]])
    /\ ret' = [op |-> "open", node |-> n, h |-> h, kind |-> "transcode"]
    /\ UNCHANGED <<disk, allFiles, allSizes, nodes, ls>>

IsSession(h) == h \in DOMAIN handles /\ handles[h].kind = "transcode"

\* ffmpeg writes one more byte, when the pipe has room for it
EncoderWrite(h) ==
    /\ IsSession(h)
    /\ handles[h].proc = "running"
    /\ handles[h].sent < handles[h].total
    /\ Len(handles[h].pipe) < PipeCap
    /\ handles' = SetHandle(handles, h,
                     [handles[h] EXCEPT
                        !.pipe = Append(@, EncoderOutput(handles[h].total)[handles[h].sent + 1]),
                        !.sent = @ + 1])
    /\ ret' = NoRet
    /\ UNCHANGED <<disk, allFiles, allSizes, nodes, ls>>

\* ffmpeg has written everything and exits, which closes its end of the pipe
EncoderExit(h) ==
    /\ IsSession(h)
    /\ handles[h].proc = "running"
    /\ handles[h].sent = handles[h].total
    /\ handles' = SetHandle(handles, h, [handles[h] EXCEPT !.proc = "exited"])
    /\ ret' = NoRet
    /\ UNCHANGED <<disk, allFiles, allSizes, nodes, ls>>

\* line 313: a read begins; it reads the pipe when the buffer is shorter
\* than offset + size
ReadCall(h, c, offset, size) ==
    /\ IsSession(h)
    /\ ~handles[h].waiting
    /\ c \in 1..MaxReads
    /\ handles[h].calls[c] = NoCall
    /\ LET fh == handles[h]
           want == IF fh.len < offset + size THEN offset + size - fh.len ELSE 0
       IN handles' = SetHandle(handles, h,
                        [fh EXCEPT !.calls[c] =
                            [pc |-> IF want > 0 THEN "recv" ELSE "slice",
                             offset |-> offset, size |-> size, want |-> want,
                             i |-> fh.len, piperr |-> FALSE]])
    /\ ret' = NoRet
    /\ UNCHANGED <<disk, allFiles, allSizes, nodes, ls>>

\* line 315: one read of the pipe by io.CopyN.  It waits for bytes or for the
\* end of the pipe, puts what it gets into the array at the length it read
\* before, and sets the length of the buffer behind it.
FillRecv(h, c) ==
    /\ IsSession(h)
    /\ handles[h].calls[c].pc = "recv"
    /\ handles[h].pipe # << >> \/ handles[h].proc = "exited"
    /\ LET fh == handles[h]
           call == fh.calls[c]
           chunk == CopyN(fh.pipe, call.want)
       IN handles' = SetHandle(handles, h,
             IF fh.pipe = << >>
             THEN [fh EXCEPT !.calls[c].pc = "slice"]
             ELSE [fh EXCEPT !.mem = WriteAt(fh.mem, call.i, chunk),
                             !.len = call.i + Len(chunk),
                             !.pipe = SubSeq(fh.pipe, Len(chunk) + 1, Len(fh.pipe)),
                             !.calls[c].want = call.want - Len(chunk),
                             !.calls[c].i = call.i + Len(chunk),
                             !.calls[c].pc = IF call.want = Len(chunk)
                                             THEN "slice" ELSE "recv"])
    /\ ret' = NoRet
    /\ UNCHANGED <<disk, allFiles, allSizes, nodes, ls>>

\* a read that goes on after an error of the pipe
ReturnsErrNever(err) == FALSE

\* line 316: err != nil && err != io.EOF
ReturnsErr(err) == err # "nil" /\ err # "EOF"

\* lines 315-318: the read of the pipe fails with an error that is not the
\* end of the pipe, and the read returns it
FillFail(h, c) ==
    /\ IsSession(h)
    /\ handles[h].calls[c].pc = "recv"
    /\ LET fh == handles[h]
           call == fh.calls[c]
       IN IF ReturnsErr("EIO")
          THEN /\ handles' = SetHandle(handles, h, [fh EXCEPT !.calls[c] = NoCall])
               /\ ret' = [op |-> "read", h |-> h, kind |-> "transcode",
                          name |-> fh.name, offset |-> call.offset,
                          size |-> call.size, n |-> 0, data |-> << >>,
                          piperr |-> TRUE, err |-> "EIO"]
          ELSE /\ handles' = SetHandle(handles, h,
                                [fh EXCEPT !.calls[c].pc = "slice",
                                           !.calls[c].piperr = TRUE])
               /\ ret' = NoRet
    /\ UNCHANGED <<disk, allFiles, allSizes, nodes, ls>>

\* lines 321-343: the read takes its slice of the buffer and returns
ReadSlice(h, c) ==
    /\ IsSession(h)
    /\ handles[h].calls[c].pc = "slice"
    /\ LET fh == handles[h]
           call == fh.calls[c]
           buffer == Buf(fh)
           n == Copied(buffer, call.offset, call.size)
       IN /\ handles' = SetHandle(handles, h, [fh EXCEPT !.calls[c] = NoCall])
          /\ allSizes' = IF SignalsEnd(n, call.size)
                         THEN Store(allSizes, fh.name, Len(buffer))
                         ELSE allSizes
          /\ ret' = [op |-> "read", h |-> h, kind |-> "transcode", name |-> fh.name,
                     offset |-> call.offset, size |-> call.size, n |-> n,
                     data |-> RespData(buffer, call.offset, call.size),
                     piperr |-> call.piperr,
                     err |-> IF SignalsEnd(n, call.size) THEN "EOF" ELSE "ok"]
    /\ UNCHANGED <<disk, allFiles, nodes, ls>>

\* lines 308-310: Release calls fh.close, which is ffmpeg.Wait.  The kernel
\* releases a handle when no read of it is in flight.
ReleaseCall(h) ==
    /\ IsSession(h)
    /\ ~handles[h].waiting
    /\ \A c \in 1..MaxReads : handles[h].calls[c] = NoCall
    /\ handles' = SetHandle(handles, h, [handles[h] EXCEPT !.waiting = TRUE])
    /\ ret' = NoRet
    /\ UNCHANGED <<disk, allFiles, allSizes, nodes, ls>>

\* line 309: Wait returns when ffmpeg has exited; it reaps the process and
\* closes the reading end of the pipe
ReleaseReturn(h) ==
    /\ IsSession(h)
    /\ handles[h].waiting
    /\ handles[h].proc = "exited"
    /\ handles' = SetHandle(handles, h, NoHandle)
    /\ ret' = [op |-> "release", h |-> h, kind |-> "transcode"]
    /\ UNCHANGED <<disk, allFiles, allSizes, nodes, ls>>

(***************************************************************************)
(* The specification.                                                      *)
(***************************************************************************)
\* the offsets and sizes of the read requests: from 0 to the length of the
\* longest stream
Offsets == 0..MaxStream
Sizes == 0..MaxStream
\* the offsets of the reads of a real file: its start and around its end
NativeOffsets(name) == {0} \cup {Entry(name).size + k : k \in -1..1}

\* The directory listing alone, entry by entry, over every directory of at
\* most MaxFiles entries of the catalogue, while the environment changes it.
NextList ==
    \/ \E p \in CatPaths : Unlink(p)
    \/ \E p \in CatPaths : Create(p)
    \/ \E d \in DirNodes : ReadDirAllBegin(d)
    \/ ReadDirAllStep
    \/ ReadDirAllReturn

SpecList == Init /\ [][NextList]_vars

\* Every callback, on a directory that holds t.mp3 and at times a real
\* t.ogg, which is the file the client works on.
WorkPaths == {Join(RootDir, TrackOgg)}
WorkNames == {TrackOgg, MissingOgg}

InitWork ==
    /\ Init
    /\ Join(RootDir, TrackMp3) \in disk
    /\ disk \subseteq {Join(RootDir, TrackMp3), Join(RootDir, TrackOgg)}

Next ==
    \/ \E p \in WorkPaths : Unlink(p)
    \/ \E p \in WorkPaths : Create(p)
    \/ \E d \in DirNodes : ReadDirAll(d)
    \/ \E d \in DirNodes, name \in WorkNames : Lookup(d, name)
    \/ \E n \in nodes : Forget(n)
    \/ \E n \in nodes : Attr(n)
    \/ \E n \in nodes, h \in 1..MaxHandles : Open(n, h)
    \/ \E h \in 1..MaxHandles, offset \in Offsets, size \in Sizes :
          Read(h, offset, size)
    \/ \E h \in 1..MaxHandles : Release(h)
    \/ \E h \in 1..MaxHandles, size \in Sizes :
          /\ handles[h].kind = "native"
          /\ \E offset \in NativeOffsets(handles[h].name) : NativeRead(h, offset, size)
    \/ \E h \in 1..MaxHandles : NativeRelease(h)

Spec == InitWork /\ [][Next]_vars

\* Listing and lookup, over every directory of at most MaxFiles entries of
\* the catalogue: a client lists a directory and asks for the names it saw,
\* for the names of the catalogue, or for a name that was never there.
AskNames ==
    {Catalogue[i].name : i \in CatIndex}
        \cup {Renamed(Catalogue[i].name) : i \in {j \in CatIndex : Catalogue[j].kind = "file"}}
        \cup {MissingOgg}

NextDir ==
    \/ \E p \in CatPaths : Unlink(p)
    \/ \E p \in CatPaths : Create(p)
    \/ \E d \in DirNodes : ReadDirAll(d)
    \/ \E d \in DirNodes, name \in AskNames :
          /\ Cardinality(nodes) < MaxNodes
          /\ Lookup(d, name)
    \/ \E n \in nodes : Forget(n)

SpecDir == Init /\ [][NextDir]_vars

\* Two sessions of one file with their subprocesses, the reads of a handle
\* one after the other and of one byte each.  The operating system lets
\* ffmpeg run and the server lets its goroutines run; the client reads and
\* releases as it likes.
NextProc ==
    \/ \E n \in nodes, h \in Pair : OpenSession(n, h)
    \/ \E h \in Pair : EncoderWrite(h)
    \/ \E h \in Pair : EncoderExit(h)
    \/ \E h \in Pair, offset \in Offsets : ReadCall(h, 1, offset, 1)
    \/ \E h \in Pair : FillRecv(h, 1)
    \/ \E h \in Pair : FillFail(h, 1)
    \/ \E h \in Pair : ReadSlice(h, 1)
    \/ \E h \in Pair : ReleaseCall(h)
    \/ \E h \in Pair : ReleaseReturn(h)

FairProc ==
    \A h \in Pair :
        /\ WF_vars(EncoderWrite(h))
        /\ WF_vars(EncoderExit(h))
        /\ WF_vars(FillRecv(h, 1))
        /\ WF_vars(ReadSlice(h, 1))
        /\ WF_vars(ReleaseReturn(h))

SpecProc == InitProc /\ [][NextProc]_vars /\ FairProc

\* One session, and up to MaxReads reads of it in flight at once.
NextRace ==
    \/ \E n \in nodes : OpenSession(n, 1)
    \/ EncoderWrite(1)
    \/ EncoderExit(1)
    \/ \E c \in 1..MaxReads, offset \in Offsets, size \in Sizes :
          ReadCall(1, c, offset, size)
    \/ \E c \in 1..MaxReads : FillRecv(1, c)
    \/ \E c \in 1..MaxReads : ReadSlice(1, c)

SpecRace == InitProc /\ [][NextRace]_vars

(***************************************************************************)
(* The claims.                                                             *)
(***************************************************************************)
\* the node the last callback worked on came from the name mapping: the
\* client asked for a path that does not exist, and allFiles maps it to the
\* node's path
ViaMapping(n) ==
    /\ n.asked # n.name
    /\ ~Exists(n.asked)
    /\ Has(allFiles, n.asked)
    /\ allFiles[n.asked] = n.name

\* C1: open() on the file node that resolve gave for a mapped virtual name
\* yields a transcode session whose encoder input is the mapped source,
\* never a passthrough handle over it.
C1_MappedOpenTranscodes ==
    (ret.op = "open" /\ ViaMapping(ret.node))
        => /\ ret.kind = "transcode"
           /\ handles[ret.h].input = ret.node.name

\* C2: metadata() on the file node that resolve gave for a mapped virtual
\* name, with no SizeEntry yet, reports 10 x the size of the real source.
C2_MappedSizeIsTenfold ==
    (/\ ret.op = "attr"
     /\ ViaMapping(ret.node)
     /\ Exists(ret.node.name)
     /\ ~Has(allSizes, ret.node.name)
     /\ ~Has(allSizes, ret.node.asked))
        => ret.size = FakeFactor * Entry(ret.node.name).size

\* what ffmpeg writes in all on the pipe of session fh
Total(fh) == Len(fh.buffer) + Len(fh.pipe)

\* C3: whenever a read of a transcode session, of any offset and any size
\* from 0, finds its slice empty and publishes a SizeEntry, the value
\* published is the total number of bytes the encoder produces.
C3_PublishedSizeIsTotal ==
    (ret.op = "read" /\ ret.kind = "transcode" /\ ret.err = "EOF")
        => /\ Has(allSizes, ret.name)
           /\ allSizes[ret.name] = Total(handles[ret.h])

\* C4: the bytes a successful read(offset, size) of a transcode session
\* hands back are exactly buffer[lo:hi], lo = min(offset, len(buffer)),
\* hi = min(offset+size, len(buffer)).
C4_ResponseIsSlice ==
    (ret.op = "read" /\ ret.kind = "transcode" /\ ret.err = "ok")
        => LET buffer == handles[ret.h].buffer
               lo == Min(ret.offset, Len(buffer))
               hi == Min(ret.offset + ret.size, Len(buffer))
           IN /\ Len(ret.data) = hi - lo
              /\ ret.data = SubSeq(buffer, lo + 1, hi)

\* C5: once a SizeEntry exists for a path, metadata() on a file node of that
\* path answers the cached size, whatever the real file's size and the
\* tenfold estimate are; and once a read of size > 0 of a drained session
\* has answered EOF, the cached size, and so metadata(), is the stream's
\* total length.
C5_CachedSizeWins ==
    /\ (ret.op = "attr" /\ Has(allSizes, ret.node.name))
          => (ret.err = "ok" /\ ret.size = allSizes[ret.node.name])
    /\ (ret.op = "read" /\ ret.kind = "transcode" /\ ret.err = "EOF" /\ ret.size > 0)
          => /\ handles[ret.h].pipe = << >>
             /\ ret.offset >= Total(handles[ret.h])
             /\ AttrSize(ret.name) = <<Total(handles[ret.h]), "ok">>

\* C5's case: metadata() answered the size a drained session cached, for a
\* path that does not exist and whose mapped source would give the tenfold
\* estimate
C5_Witness ==
    /\ ret.op = "attr"
    /\ Has(allSizes, ret.node.name)
    /\ ret.size = allSizes[ret.node.name]
    /\ ret.size > 0
    /\ ~Exists(ret.node.name)
    /\ Has(allFiles, ret.node.name)
    /\ Exists(allFiles[ret.node.name])

\* s is a prefix of t
IsPrefix(s, t) == Len(s) <= Len(t) /\ SubSeq(t, 1, Len(s)) = s

\* C6: the buffer of a transcode session only grows: in every step its old
\* value is a prefix of its new value, and the bytes a read returns for a
\* range are the buffer's bytes of that range.
C6_BufferOnlyGrows ==
    [][\A h \in 1..MaxHandles :
          (handles[h].kind = "transcode" /\ handles'[h].kind = "transcode")
              => /\ IsPrefix(handles[h].buffer, handles'[h].buffer)
                 /\ (ret'.op = "read" /\ ret'.h = h)
                       => \A k \in 1..ret'.n :
                             /\ ret'.offset + k <= Len(handles'[h].buffer)
                             /\ ret'.data[k] = EncoderOutput(Total(handles[h]))[ret'.offset + k]
      ]_vars

\* C6's case: a read has returned bytes of a range that an earlier read
\* had already put into the buffer
C6_Witness ==
    /\ ret.op = "read"
    /\ ret.kind = "transcode"
    /\ ret.n > 0
    /\ ret.had >= ret.offset + ret.size

\* the paths whose mapping a step stores or changes
Registered == {v \in DOMAIN allFiles' : ~Has(allFiles, v) \/ allFiles[v] # allFiles'[v]}

\* C7: every mapping list() stores is for a regular file classified as
\* audio, while no real file exists at the virtual path; a pass of the loop
\* over a file that is not audio lists its name as it is and stores no
\* mapping, and a pass over an audio file whose renamed path exists stores
\* none either.
C7_MappingOnlyForAudio ==
    [][/\ \A v \in Registered :
             /\ IsRegular(allFiles'[v])
             /\ isAudio(allFiles'[v])
             /\ ~Exists(v)
       /\ (ls.pc = "loop" /\ ls'.pc = "loop" /\ ls'.i = ls.i + 1)
             => LET ent == ls.ents[ls.i]
                    path == Join(ls.dir, ent.name)
                IN /\ ~isAudio(path)
                      => /\ Registered = {}
                         /\ Len(ls'.out) = Len(ls.out) + 1
                         /\ ls'.out[Len(ls'.out)].Name = ent.name
                   /\ Exists(Join(ls.dir, Renamed(ent.name)))
                      => Registered = {}
      ]_vars

\* C7's case: one listing has stored the mapping of an audio file and
\* listed a file that is not audio under its own name
C7_Witness ==
    /\ ret.op = "readdir"
    /\ ret.err = "ok"
    /\ \E i, j \in 1..Len(ret.out) :
          /\ ret.out[i].audio
          /\ ret.out[i].Name # ret.out[i].src
          /\ Has(allFiles, Join(ret.dir, ret.out[i].Name))
          /\ allFiles[Join(ret.dir, ret.out[i].Name)] = Join(ret.dir, ret.out[i].src)
          /\ ~ret.out[j].audio
          /\ ret.out[j].Type = "DT_File"
          /\ ret.out[j].Name = ret.out[j].src

\* C8: a mapping, once stored, is never changed or deleted: if allFiles maps
\* v to r, it maps v to r after every step.
C8_MappingNeverChanges ==
    [][\A v \in DOMAIN allFiles :
          /\ Has(allFiles', v)
          /\ allFiles'[v] = allFiles[v]
      ]_vars

\* the name without its final extension
Stem(name) == SubSeq(name, 1, Len(name) - Len(Ext(name)))

\* C9: the name list() returns for a regular file classified as audio is
\* its name with the final extension replaced by ".ogg": the stem kept, the
\* original extension gone.
C9_ListedNameIsStemOgg ==
    (ret.op = "readdir" /\ ret.err = "ok")
        => \A i \in 1..Len(ret.out) :
              ret.out[i].audio
                 => /\ HasSuffix(ret.out[i].Name, OggExt)
                    /\ ret.out[i].Name = Stem(ret.out[i].src) \o OggExt

\* the bytes a direct positioned read of size bytes at offset gives of the
\* real file name
FileBytes(name, offset, size) ==
    LET m == IF offset >= Entry(name).size THEN 0
             ELSE Min(size, Entry(name).size - offset)
    IN [k \in 1..m |-> ByteAt(name, offset + k - 1)]

\* a file node whose path exists opens as a passthrough handle, and a
\* passthrough read gives the bytes of a direct read, cut at the end of the
\* file without error
PassthroughOpenAndRead ==
    /\ (ret.op = "open" /\ Exists(ret.node.name)) => ret.kind = "native"
    /\ (ret.op = "read" /\ ret.kind = "native")
          => /\ ret.err = "ok"
             /\ ret.data = FileBytes(ret.name, ret.offset, ret.size)

\* C10, as the specification states it: a file node whose path exists as a
\* real file opens as a passthrough handle, whose reads give the bytes of the
\* real file at [offset, offset+size), cut at its end without error, and
\* metadata() gives the real file's size.
C10_PassthroughAsClaimed ==
    /\ PassthroughOpenAndRead
    /\ (ret.op = "attr" /\ Exists(ret.node.name))
          => ret.size = Entry(ret.node.name).size

\* C10: a file node whose path exists as a real file opens as a passthrough
\* handle, whose reads give the bytes of the real file at [offset,
\* offset+size), cut at its end without error; metadata() gives the real
\* file's size when no SizeEntry is cached for the path and the cached size
\* when one is, never the tenfold estimate.
C10_Passthrough ==
    /\ PassthroughOpenAndRead
    /\ (ret.op = "attr" /\ Exists(ret.node.name))
          => /\ ret.err = "ok"
             /\ ret.size = IF Has(allSizes, ret.node.name)
                           THEN allSizes[ret.node.name]
                           ELSE Entry(ret.node.name).size

\* C10's case: the real file is open as a passthrough handle, and
\* metadata() on its node has answered the size an earlier session cached
\* for the path, which is not the real file's
C10_Witness ==
    /\ ret.op = "attr"
    /\ ret.err = "ok"
    /\ Exists(ret.node.name)
    /\ Has(allSizes, ret.node.name)
    /\ ret.size = allSizes[ret.node.name]
    /\ ret.size # Entry(ret.node.name).size
    /\ \E h \in 1..MaxHandles :
          /\ handles[h].kind = "native"
          /\ handles[h].name = ret.node.name

\* C13: resolve(name) on a directory fails with NotFound whenever no file
\* exists at join(dir, name) and no mapping is stored for that path; the
\* failed lookup stores no mapping and no SizeEntry, and makes no node.
C13_UnmappedIsNotFound ==
    [][(ret'.op = "lookup" /\ ~Exists(ret'.asked) /\ ~Has(allFiles, ret'.asked))
          => /\ ret'.err = "ENOENT"
             /\ allFiles' = allFiles
             /\ allSizes' = allSizes
             /\ nodes' = nodes
      ]_vars

\* C13's case: a lookup of a path that does not exist and is not mapped has
\* answered ENOENT, while the cache holds a mapping for another path
C13_Witness ==
    /\ ret.op = "lookup"
    /\ ret.err = "ENOENT"
    /\ ~Exists(ret.asked)
    /\ ~Has(allFiles, ret.asked)
    /\ allFiles # << >>

\* C15: a read of a transcode session answers EOF if and only if the slice
\* buffer[lo:hi] it computes is empty; a read that returns at least one byte
\* answers no EOF, also when it returns fewer bytes than asked, and leaves
\* the size cache as it is.
C15_EofIffEmptySlice ==
    [][(ret'.op = "read" /\ ret'.kind = "transcode")
          => LET buffer == handles'[ret'.h].buffer
                 lo == Min(ret'.offset, Len(buffer))
                 hi == Min(ret'.offset + ret'.size, Len(buffer))
             IN /\ ret'.err = "EOF" <=> hi - lo = 0
                /\ hi - lo > 0 => (ret'.err = "ok" /\ allSizes' = allSizes)
      ]_vars

\* C15's case: a read has returned at least one byte and fewer than asked,
\* without EOF
C15_Witness ==
    /\ ret.op = "read"
    /\ ret.kind = "transcode"
    /\ ret.err = "ok"
    /\ 0 < ret.n
    /\ ret.n < ret.size

\* C14: listing an unchanged directory twice gives the same entries both
\* times, each audio file under the same renamed name, and leaves the name
\* mapping cache after the second listing equal to the cache after the first.
C14_ListingIsIdempotent ==
    [][(/\ ret.op = "readdir"
        /\ ret.err = "ok"
        /\ ret'.op = "readdir"
        /\ ret'.dir = ret.dir)
          => /\ ret'.err = "ok"
             /\ Len(ret'.out) = Len(ret.out)
             /\ \A i \in 1..Len(ret.out) :
                   /\ ret'.out[i].Name = ret.out[i].Name
                   /\ ret'.out[i].Type = ret.out[i].Type
             /\ allFiles' = allFiles
      ]_vars

\* C14's case: a listing shows an audio file under its renamed name, after
\* an earlier listing stored its mapping and a lookup resolved through it
C14_Witness ==
    /\ ret.op = "readdir"
    /\ ret.err = "ok"
    /\ \E i \in 1..Len(ret.out), n \in nodes :
          /\ ret.out[i].audio
          /\ ret.out[i].Name # ret.out[i].src
          /\ n.asked = Join(ret.dir, ret.out[i].Name)
          /\ n.name = Join(ret.dir, ret.out[i].src)
          /\ Has(allFiles, n.asked)
          /\ allFiles[n.asked] = n.name

\* C18: the entry names one list() returns are pairwise distinct, whatever
\* the directory holds.
C18_ListedNamesDistinct ==
    (ret.op = "readdir" /\ ret.err = "ok")
        => \A i, j \in 1..Len(ret.out) :
              i # j => ret.out[i].Name # ret.out[j].Name

\* C19: on an unchanged directory, resolve of a name that list() has just
\* returned, on the same directory node, succeeds; it gives a directory node
\* for a directory entry and a file node for a file entry, and for a renamed
\* audio entry the file node's path is the real file the entry was made from.
C19_ListedNameResolves ==
    [][(ret.op = "readdir" /\ ret.err = "ok" /\ ret'.op = "lookup")
          => \A i \in 1..Len(ret.out) :
                ret'.asked = Join(ret.dir, ret.out[i].Name)
                   => /\ ret'.err = "ok"
                      /\ ret'.node.kind = IF ret.out[i].Type = "DT_Dir"
                                          THEN "dir" ELSE "file"
                      /\ (ret.out[i].audio /\ ret.out[i].Name # ret.out[i].src)
                            => ret'.node.name = Join(ret.dir, ret.out[i].src)
      ]_vars

\* C11: release() on a transcode session always completes, also when
\* ffmpeg still has output that nobody has read: once Release has called
\* Wait, the process is reaped, the pipe closed and the handle gone.
C11_ReleaseCompletes ==
    \A h \in Pair :
        (IsSession(h) /\ handles[h].waiting) ~> (handles[h] = NoHandle)

\* C12: with several reads of one session in flight, the buffer stays a
\* prefix of what ffmpeg writes, in the order it writes it, and every read
\* returns the bytes [lo, hi) of that stream.
C12_BufferIsStreamPrefix ==
    /\ \A h \in Pair :
          IsSession(h) => IsPrefix(Buf(handles[h]), EncoderOutput(handles[h].total))
    /\ (ret.op = "read" /\ ret.kind = "transcode" /\ IsSession(ret.h))
          => \A k \in 1..ret.n :
                /\ ret.offset + k <= handles[ret.h].total
                /\ ret.data[k] = EncoderOutput(handles[ret.h].total)[ret.offset + k]

\* C16: a read whose read of the pipe fails with an error that is not the
\* end of the pipe returns that error, answers no EOF, and leaves the size
\* cache as it is.
C16_PipeErrorIsReturned ==
    [][(ret'.op = "read" /\ ret'.kind = "transcode" /\ ret'.piperr)
          => /\ ret'.err = "EIO"
             /\ allSizes' = allSizes
      ]_vars

\* C16's case: a read has returned the error of the pipe, after another
\* read of the file had published its size
C16_Witness ==
    /\ ret.op = "read"
    /\ ret.kind = "transcode"
    /\ ret.piperr
    /\ ret.err = "EIO"
    /\ Has(allSizes, ret.name)

\* C17: two sessions of one file are independent.  open() gives the new
\* session an empty buffer and a pipe of its own; a step of one session,
\* a read or a release of it, leaves the other as it is; and the size cache
\* changes only when a read answers EOF, to the buffer length of the session
\* that answered.
C17_SessionsAreIndependent ==
    [][/\ \A h, g \in Pair :
             (h # g /\ handles'[h] # handles[h]) => handles'[g] = handles[g]
       /\ ret'.op = "open"
             => /\ handles[ret'.h] = NoHandle
                /\ Buf(handles'[ret'.h]) = << >>
                /\ handles'[ret'.h].pipe = << >>
                /\ handles'[ret'.h].sent = 0
       /\ IF ret'.op = "read" /\ ret'.err = "EOF"
          THEN allSizes' = Store(allSizes, ret'.name, handles'[ret'.h].len)
          ELSE allSizes' = allSizes
      ]_vars

\* C17's case: both sessions of the file are open with different bytes
\* read, and the size cache holds the buffer length of the one whose read
\* answered EOF last, after the other had published another
C17_Witness ==
    /\ ret.op = "read"
    /\ ret.err = "EOF"
    /\ \E g \in Pair :
          /\ g # ret.h
          /\ IsSession(g)
          /\ IsSession(ret.h)
          /\ handles[g].name = handles[ret.h].name
          /\ handles[g].len > 0
          /\ handles[g].len # handles[ret.h].len
          /\ handles[g].pipe = << >>
          /\ handles[g].proc = "exited"
          /\ allSizes[ret.name] = handles[ret.h].len

====
